---- MODULE Spec2Model ----
(***************************************************************************)
(* reltester: checkers for the laws of PartialEq, Eq, PartialOrd, Ord,     *)
(* Hash, Iterator, DoubleEndedIterator and FusedIterator.                  *)
(*                                                                         *)
(* The source holds the granular checkers twice: as the file module        *)
(* src/src/invariants.rs (with the error enums of src/src/error.rs) and as *)
(* the inline module `invariants` of src/src/lib.rs (with the flat Error   *)
(* enum of lib.rs).  The composite verifiers of lib.rs call them through   *)
(* the path `invariants::`.  Both are modelled; the variable invmod says   *)
(* which of the two the path names in the run at hand.                     *)
(***************************************************************************)
EXTENDS Integers, Sequences, FiniteSets, TLC

VARIABLES
    invmod,    \* "file" (invariants.rs + error.rs) or "inline" (lib.rs)
    ty,        \* the type under test
    a, b, c,   \* the three borrowed samples
    verifier,  \* the public function that was called
    pc,        \* the granular checkers still to run, in order
    ran,       \* the granular checkers that were run, in order
    memo,      \* the part of the type's method tables known so far
    result,    \* Running, Ok or the violation returned
    icheck,    \* the iterator checker that was called
    source,    \* the iterator the caller passed
    iter,      \* the iterator under test, as the checker holds it
    ipc,       \* the checker's position
    collected, \* double-ended check: the materialization of the clone
    from_start,\* double-ended check: the items taken by next
    from_end,  \* double-ended check: the items taken by next_back
    count,     \* fused check: the items counted up to the first None
    polls,     \* fused check: the calls of next made by the for loop
    iresult,   \* Running, Ok or the violation returned
    ha, hb,    \* the two hashed samples
    hverifier, \* the hashing function that was called
    hpc,       \* the hashing checkers still to run, in order
    hresult    \* Running, Ok or the violation returned

relvars == <<invmod, ty, a, b, c, verifier, pc, ran, memo, result>>
itervars == <<icheck, source, iter, ipc, collected, from_start, from_end, count,
              polls, iresult>>
hashvars == <<ha, hb, hverifier, hpc, hresult>>
vars == <<relvars, itervars, hashvars>>

(***************************************************************************)
(* Bounds.                                                                 *)
(***************************************************************************)
MaxInt == 2        \* payloads and integers range over 0..MaxInt
MaxLen == 4        \* length of the sequences iterated
NumItems == 2      \* number of distinct items
MaxWrites == 2     \* calls one hash method makes on the hasher

(***************************************************************************)
(* Results.  A violation is the pair <<enum, variant>>.                    *)
(***************************************************************************)
Ok == <<"Ok", "Ok">>
Idle == <<"Idle", "Idle">>
Running == <<"Running", "Running">>
Panic == <<"panic", "assertion failed: min <= max">>
Err(enum, variant) == <<enum, variant>>

Less == "Less"
Equal == "Equal"
Greater == "Greater"
None == "None"
Ordering == {Less, Equal, Greater}

(***************************************************************************)
(* The types under test.  A value is <<tag, n>>.                           *)
(***************************************************************************)
U32Vals == {<<"u32", n>> : n \in 0..MaxInt}
NaN == <<"NaN", 0>>
F32Vals == {<<"f32", n>> : n \in 0..MaxInt} \cup {NaN}
ArweaveVals == {<<"Block", n>> : n \in 0..MaxInt}
                  \cup {<<"Transaction", n>> : n \in 0..MaxInt}
\* The unconstrained type: three values, one for each sample.
AnyVals == {<<"any", n>> : n \in {0, 1, 2}}

Types == {"u32", "f32", "ArweaveTrigger", "any"}

Vals(t) ==
    CASE t = "u32" -> U32Vals
      [] t = "f32" -> F32Vals
      [] t = "ArweaveTrigger" -> ArweaveVals
      [] t = "any" -> AnyVals

\* The triples of samples.  The values of the unconstrained type are
\* interchangeable, so one triple stands for each way a, b and c can
\* coincide.
Samples(t) ==
    IF t = "any"
    THEN { <<<<"any", 0>>, <<"any", 0>>, <<"any", 0>>>>,
           <<<<"any", 0>>, <<"any", 0>>, <<"any", 1>>>>,
           <<<<"any", 0>>, <<"any", 1>>, <<"any", 0>>>>,
           <<<<"any", 0>>, <<"any", 1>>, <<"any", 1>>>>,
           <<<<"any", 0>>, <<"any", 1>>, <<"any", 2>>>> }
    ELSE Vals(t) \X Vals(t) \X Vals(t)

\* A method call: <<method, receiver, argument, second argument>>.
Key(method, x, y) == <<method, x, y, y>>

\* u32: the usual total order.
U32Cmp(x, y) ==
    IF x[2] < y[2] THEN Less ELSE IF x[2] = y[2] THEN Equal ELSE Greater

U32Method(k) ==
    LET x == k[2]
        y == k[3]
    IN  CASE k[1] = "eq" -> x[2] = y[2]
          [] k[1] = "ne" -> x[2] # y[2]
          [] k[1] = "lt" -> x[2] < y[2]
          [] k[1] = "le" -> x[2] <= y[2]
          [] k[1] = "gt" -> x[2] > y[2]
          [] k[1] = "ge" -> x[2] >= y[2]
          [] k[1] = "partial_cmp" -> U32Cmp(x, y)
          [] k[1] = "cmp" -> U32Cmp(x, y)
          [] k[1] = "max" -> IF x[2] > y[2] THEN x ELSE y
          [] k[1] = "min" -> IF x[2] > y[2] THEN y ELSE x
          [] k[1] = "clamp" ->
                IF ~(y[2] <= k[4][2]) THEN Panic
                ELSE IF x[2] < y[2] THEN y
                ELSE IF x[2] > k[4][2] THEN k[4] ELSE x

\* f32: NaN is unequal to everything, incomparable with everything.
F32PartialCmp(x, y) ==
    IF x = NaN \/ y = NaN THEN None
    ELSE IF x[2] < y[2] THEN Less ELSE IF x[2] = y[2] THEN Equal ELSE Greater

F32Method(k) ==
    LET x == k[2]
        y == k[3]
        num == x # NaN /\ y # NaN
    IN  CASE k[1] = "eq" -> num /\ x[2] = y[2]
          [] k[1] = "ne" -> ~(num /\ x[2] = y[2])
          [] k[1] = "lt" -> num /\ x[2] < y[2]
          [] k[1] = "le" -> num /\ x[2] <= y[2]
          [] k[1] = "gt" -> num /\ x[2] > y[2]
          [] k[1] = "ge" -> num /\ x[2] >= y[2]
          [] k[1] = "partial_cmp" -> F32PartialCmp(x, y)

\* ArweaveTrigger: PartialEq::eq of the test.
ArweaveEq(x, y) ==
    CASE x[1] = "Block" /\ y[1] = "Block" -> x[2] = y[2]
      [] x[1] = "Transaction" /\ y[1] = "Transaction" -> x[2] = y[2]
      [] OTHER -> FALSE

\* ArweaveTrigger: Ord::cmp of the test.
ArweaveCmp(x, y) ==
    CASE x[1] = "Block" /\ y[1] = "Block" -> Equal
      [] x[1] = "Block" -> Greater
      [] y[1] = "Block" -> Less
      [] OTHER -> Equal

\* ArweaveTrigger: partial_cmp is Some(cmp); ne, lt, le, gt, ge, max, min
\* and clamp are the provided methods of PartialEq, PartialOrd and Ord.
ArweaveMethod(k) ==
    LET x == k[2]
        y == k[3]
        pcmp == ArweaveCmp(x, y)
    IN  CASE k[1] = "eq" -> ArweaveEq(x, y)
          [] k[1] = "ne" -> ~ArweaveEq(x, y)
          [] k[1] = "lt" -> pcmp = Less
          [] k[1] = "le" -> pcmp \in {Less, Equal}
          [] k[1] = "gt" -> pcmp = Greater
          [] k[1] = "ge" -> pcmp \in {Greater, Equal}
          [] k[1] = "partial_cmp" -> pcmp
          [] k[1] = "cmp" -> pcmp
          [] k[1] = "max" -> IF pcmp = Greater THEN x ELSE y
          [] k[1] = "min" -> IF pcmp = Greater THEN y ELSE x
          [] k[1] = "clamp" ->
                IF ArweaveCmp(y, k[4]) = Greater THEN Panic
                ELSE IF pcmp = Less THEN y
                ELSE IF ArweaveCmp(x, k[4]) = Greater THEN k[4] ELSE x

\* The unconstrained type: every method may answer anything of its type.
AnyMethod(k) ==
    CASE k[1] \in {"eq", "ne", "lt", "le", "gt", "ge"} -> BOOLEAN
      [] k[1] = "partial_cmp" -> Ordering \cup {None}
      [] k[1] = "cmp" -> Ordering
      [] k[1] \in {"max", "min"} -> {k[2], k[3]}
      [] k[1] = "clamp" -> {k[2], k[3], k[4]}

\* The answers the type t can give to the call k.
Method(t, k) ==
    CASE t = "u32" -> {U32Method(k)}
      [] t = "f32" -> {F32Method(k)}
      [] t = "ArweaveTrigger" -> {ArweaveMethod(k)}
      [] t = "any" -> AnyMethod(k)

Methods(t) ==
    IF t = "f32"
    THEN {"eq", "ne", "lt", "le", "gt", "ge", "partial_cmp"}
    ELSE {"eq", "ne", "lt", "le", "gt", "ge", "partial_cmp", "cmp"}

\* What is known of the methods of t before any call: the whole tables of
\* u32, f32 and ArweaveTrigger, nothing of the unconstrained type.
Tables(t) ==
    IF t = "any" THEN << >>
    ELSE [k \in {Key(f, x, y) : f \in Methods(t), x \in Vals(t), y \in Vals(t)}
            |-> CHOOSE r \in Method(t, k) : TRUE]

\* The method tables that extend m by an answer to each call of ks.
RECURSIVE Extend(_, _, _)
Extend(m, t, ks) ==
    IF ks = <<>> THEN {m}
    ELSE LET k == Head(ks)
         IN  IF k \in DOMAIN m THEN Extend(m, t, Tail(ks))
             ELSE UNION {Extend(m @@ (k :> r), t, Tail(ks)) : r \in Method(t, k)}

\* The operators and methods as the checkers write them, read from m.
eq_(m, x, y) == m[Key("eq", x, y)]
ne_(m, x, y) == m[Key("ne", x, y)]
lt_(m, x, y) == m[Key("lt", x, y)]
le_(m, x, y) == m[Key("le", x, y)]
gt_(m, x, y) == m[Key("gt", x, y)]
ge_(m, x, y) == m[Key("ge", x, y)]
partial_cmp(m, x, y) == m[Key("partial_cmp", x, y)]
cmp(m, x, y) == m[Key("cmp", x, y)]
\* Ord::max, Ord::min and Ord::clamp as the type T itself implements them.
max_(m, x, y) == m[Key("max", x, y)]
min_(m, x, y) == m[Key("min", x, y)]
clamp_(m, x, lo, hi) == m[<<"clamp", x, lo, hi>>]

(***************************************************************************)
(* The granular checkers of src/src/invariants.rs.  m holds the answers of *)
(* the type's methods to the calls the checker makes.                      *)
(***************************************************************************)
partial_eq_methods_consistency(m, x, y) ==
    IF eq_(m, x, y) # ~ne_(m, x, y)
    THEN Err("PartialEqError", "BadNe")
    ELSE Ok

partial_eq_symmetry(m, x, y) ==
    IF eq_(m, x, y) # eq_(m, y, x)
    THEN Err("PartialEqError", "BrokeSymmetry")
    ELSE Ok

partial_eq_transitivity(m, x, y, z) ==
    IF eq_(m, x, y) /\ eq_(m, y, z) /\ ne_(m, x, z)
    THEN Err("PartialEqError", "BrokeTransitivity")
    ELSE Ok

eq_reflexivity(m, x) ==
    IF ne_(m, x, x)
    THEN Err("PartialEqError", "BrokeTransitivity")
    ELSE Ok

\* Variant of partial_ord_methods_consistency that does not compare == with
\* partial_cmp.
partial_ord_methods_consistency_no_eq(m, x, y) ==
    IF lt_(m, x, y) # (partial_cmp(m, x, y) = Less)
    THEN Err("PartialOrdError", "BadLt")
    ELSE IF gt_(m, x, y) # (partial_cmp(m, x, y) = Greater)
    THEN Err("PartialOrdError", "BadGt")
    ELSE IF le_(m, x, y) # (lt_(m, x, y) \/ eq_(m, x, y))
    THEN Err("PartialOrdError", "BadLe")
    ELSE IF ge_(m, x, y) # (gt_(m, x, y) \/ eq_(m, x, y))
    THEN Err("PartialOrdError", "BadGe")
    ELSE Ok

\* Variant of partial_ord_methods_consistency that takes <= to be the
\* negation of > and >= the negation of <.
partial_ord_methods_consistency_total(m, x, y) ==
    IF eq_(m, x, y) # (partial_cmp(m, x, y) = Equal)
    THEN Err("PartialOrdError", "BadPartialCmp")
    ELSE IF lt_(m, x, y) # (partial_cmp(m, x, y) = Less)
    THEN Err("PartialOrdError", "BadLt")
    ELSE IF gt_(m, x, y) # (partial_cmp(m, x, y) = Greater)
    THEN Err("PartialOrdError", "BadGt")
    ELSE IF le_(m, x, y) # ~gt_(m, x, y)
    THEN Err("PartialOrdError", "BadLe")
    ELSE IF ge_(m, x, y) # ~lt_(m, x, y)
    THEN Err("PartialOrdError", "BadGe")
    ELSE Ok

\* Variant of partial_ord_methods_consistency without the check of >.
partial_ord_methods_consistency_no_gt(m, x, y) ==
    IF eq_(m, x, y) # (partial_cmp(m, x, y) = Equal)
    THEN Err("PartialOrdError", "BadPartialCmp")
    ELSE IF lt_(m, x, y) # (partial_cmp(m, x, y) = Less)
    THEN Err("PartialOrdError", "BadLt")
    ELSE IF le_(m, x, y) # (lt_(m, x, y) \/ eq_(m, x, y))
    THEN Err("PartialOrdError", "BadLe")
    ELSE IF ge_(m, x, y) # (gt_(m, x, y) \/ eq_(m, x, y))
    THEN Err("PartialOrdError", "BadGe")
    ELSE Ok

\* Variant of partial_ord_methods_consistency that checks < before ==.
partial_ord_methods_consistency_lt_first(m, x, y) ==
    IF lt_(m, x, y) # (partial_cmp(m, x, y) = Less)
    THEN Err("PartialOrdError", "BadLt")
    ELSE IF eq_(m, x, y) # (partial_cmp(m, x, y) = Equal)
    THEN Err("PartialOrdError", "BadPartialCmp")
    ELSE IF gt_(m, x, y) # (partial_cmp(m, x, y) = Greater)
    THEN Err("PartialOrdError", "BadGt")
    ELSE IF le_(m, x, y) # (lt_(m, x, y) \/ eq_(m, x, y))
    THEN Err("PartialOrdError", "BadLe")
    ELSE IF ge_(m, x, y) # (gt_(m, x, y) \/ eq_(m, x, y))
    THEN Err("PartialOrdError", "BadGe")
    ELSE Ok

partial_ord_methods_consistency(m, x, y) ==
    IF eq_(m, x, y) # (partial_cmp(m, x, y) = Equal)
    THEN Err("PartialOrdError", "BadPartialCmp")
    ELSE IF lt_(m, x, y) # (partial_cmp(m, x, y) = Less)
    THEN Err("PartialOrdError", "BadLt")
    ELSE IF gt_(m, x, y) # (partial_cmp(m, x, y) = Greater)
    THEN Err("PartialOrdError", "BadGt")
    ELSE IF le_(m, x, y) # (lt_(m, x, y) \/ eq_(m, x, y))
    THEN Err("PartialOrdError", "BadLe")
    ELSE IF ge_(m, x, y) # (gt_(m, x, y) \/ eq_(m, x, y))
    THEN Err("PartialOrdError", "BadGe")
    ELSE Ok

\* Variant of partial_ord_duality that does not flip the operator: it
\* compares a < b with b < a and a > b with b > a.
partial_ord_duality_unflipped(m, x, y) ==
    IF (lt_(m, x, y) # lt_(m, y, x)) /\ (gt_(m, x, y) # gt_(m, y, x))
    THEN Err("PartialOrdError", "BrokeDuality")
    ELSE Ok

partial_ord_duality(m, x, y) ==
    IF (lt_(m, x, y) # gt_(m, y, x)) /\ (gt_(m, x, y) # lt_(m, y, x))
    THEN Err("PartialOrdError", "BrokeDuality")
    ELSE Ok

partial_ord_transitivity(m, x, y, z) ==
    IF lt_(m, x, y) /\ lt_(m, y, z) /\ ~lt_(m, x, z)
    THEN Err("PartialOrdError", "BrokeTransitivity")
    ELSE IF gt_(m, x, y) /\ gt_(m, y, z) /\ ~gt_(m, x, z)
    THEN Err("PartialOrdError", "BrokeTransitivity")
    ELSE Ok

\* std::cmp::max_by and min_by with the comparator |x, y| x.cmp(y).
max_by(m, x, y) == IF cmp(m, x, y) = Greater THEN x ELSE y
min_by(m, x, y) == IF cmp(m, x, y) = Greater THEN y ELSE x

\* a.max(b), b.min(c) and a.clamp(min, max) are called on values of type &T:
\* they are the provided methods of Ord for the reference type, which
\* forward to the cmp, le, lt and gt of T.  The max, min and clamp that T
\* itself defines are not called.
ref_max(m, x, y) == max_by(m, x, y)
ref_min(m, x, y) == min_by(m, x, y)
ref_clamp_asserts(m, lo, hi) == le_(m, lo, hi)
ref_clamp(m, x, lo, hi) ==
    IF lt_(m, x, lo) THEN lo ELSE IF gt_(m, x, hi) THEN hi ELSE x

ord_methods_consistency(m, x, y, z) ==
    IF partial_cmp(m, x, y) # cmp(m, x, y)
    THEN Err("OrdError", "BadCmp")
    ELSE IF ne_(m, ref_max(m, x, y), max_by(m, x, y))
    THEN Err("OrdError", "BadMax")
    ELSE IF ne_(m, ref_min(m, x, y), min_by(m, x, y))
    THEN Err("OrdError", "BadMin")
    ELSE LET min == ref_min(m, y, z)
             max == ref_max(m, y, z)
         IN  IF ~ref_clamp_asserts(m, min, max) THEN Panic
             ELSE LET clamped == ref_clamp(m, x, min, max)
                  IN  IF lt_(m, clamped, min) \/ gt_(m, clamped, max)
                      THEN Err("OrdError", "BadClamp")
                      ELSE Ok

(***************************************************************************)
(* The granular checkers of the inline module `invariants` of lib.rs.      *)
(***************************************************************************)
lib_partial_eq_methods_consistency(m, x, y) ==
    IF eq_(m, x, y) # ~ne_(m, x, y)
    THEN Err("Error", "NotConsistentEqNe")
    ELSE Ok

lib_partial_eq_symmetry(m, x, y) ==
    IF eq_(m, x, y) # eq_(m, y, x)
    THEN Err("Error", "BrokeSymmetry")
    ELSE Ok

lib_partial_eq_transitivity(m, x, y, z) ==
    IF eq_(m, x, y) /\ eq_(m, y, z) /\ ne_(m, x, z)
    THEN Err("Error", "BrokeTransitivity")
    ELSE Ok

lib_eq_reflexivity(m, x) ==
    IF ne_(m, x, x)
    THEN Err("Error", "BrokeReflexivity")
    ELSE Ok

lib_partial_ord_methods_consistency(m, x, y) ==
    IF lib_partial_eq_methods_consistency(m, x, y) # Ok
    THEN lib_partial_eq_methods_consistency(m, x, y)
    ELSE IF eq_(m, x, y) # (partial_cmp(m, x, y) = Equal)
    THEN Err("Error", "NotConsistentPartialCmpEq")
    ELSE IF lt_(m, x, y) # (partial_cmp(m, x, y) = Less)
    THEN Err("Error", "NotConsistentPartialCmpLt")
    ELSE IF gt_(m, x, y) # (partial_cmp(m, x, y) = Greater)
    THEN Err("Error", "NotConsistentPartialCmpGt")
    ELSE IF le_(m, x, y) # (lt_(m, x, y) \/ eq_(m, x, y))
    THEN Err("Error", "NotConsistentPartialCmpLe")
    ELSE IF ge_(m, x, y) # (gt_(m, x, y) \/ eq_(m, x, y))
    THEN Err("Error", "NotConsistentPartialCmpGe")
    ELSE Ok

lib_partial_ord_duality(m, x, y) ==
    IF (lt_(m, x, y) # gt_(m, y, x)) /\ (gt_(m, x, y) # lt_(m, y, x))
    THEN Err("Error", "BrokeDuality")
    ELSE Ok

lib_partial_ord_transitivity(m, x, y, z) ==
    IF lib_partial_eq_transitivity(m, x, y, z) # Ok
    THEN lib_partial_eq_transitivity(m, x, y, z)
    ELSE IF lt_(m, x, y) /\ lt_(m, y, z) /\ ~lt_(m, x, z)
    THEN Err("Error", "BrokeTransitivity")
    ELSE IF gt_(m, x, y) /\ gt_(m, y, z) /\ ~gt_(m, x, z)
    THEN Err("Error", "BrokeTransitivity")
    ELSE Ok

lib_ord_methods_consistency(m, x, y, z) ==
    IF partial_cmp(m, x, y) # cmp(m, x, y)
    THEN Err("Error", "NotConsistentCmpPartialCmp")
    ELSE IF ne_(m, ref_max(m, x, y), max_by(m, x, y))
    THEN Err("Error", "NotConsistentCmpMax")
    ELSE IF ne_(m, ref_min(m, x, y), min_by(m, x, y))
    THEN Err("Error", "NotConsistentCmpMin")
    ELSE Ok

(***************************************************************************)
(* The composite verifiers of lib.rs: the granular checkers each one runs, *)
(* in the order of its `?` chain.                                          *)
(***************************************************************************)
partial_eq ==
    << "partial_eq_methods_consistency",
       "partial_eq_symmetry",
       "partial_eq_transitivity" >>

\* Variant of eq that checks reflexivity before partial equality.
eq_reflexivity_first == << "eq_reflexivity" >> \o partial_eq

eq == partial_eq \o << "eq_reflexivity" >>

partial_ord ==
    partial_eq \o << "partial_ord_methods_consistency",
                     "partial_ord_duality",
                     "partial_ord_transitivity" >>

ord == eq \o partial_ord \o << "ord_methods_consistency" >>

Granular ==
    { "partial_eq_methods_consistency", "partial_eq_symmetry",
      "partial_eq_transitivity", "eq_reflexivity",
      "partial_ord_methods_consistency", "partial_ord_duality",
      "partial_ord_transitivity", "ord_methods_consistency" }

Composite == {"partial_eq", "eq", "partial_ord", "ord"}

\* The checkers a call of the public function v runs.
Stages(v) ==
    CASE v = "partial_eq" -> partial_eq
      [] v = "eq" -> eq
      [] v = "partial_ord" -> partial_ord
      [] v = "ord" -> ord
      [] OTHER -> << v >>

\* What a type T: Ord answers itself for max and min on the pair (a, b)
\* and for clamp of a between b and c, part of the implementation under
\* test in a call that requires T: Ord.
OwnCalls(v, x, y, z) ==
    IF v \in {"ord", "ord_methods_consistency"}
    THEN << Key("max", x, y), Key("min", x, y),
            <<"clamp", x, y, z>>, <<"clamp", x, z, y>> >>
    ELSE << >>

\* The public functions the trait bounds admit for the type t: f32 is
\* neither Eq nor Ord.
Callable(t) ==
    IF t = "f32"
    THEN (Granular \ {"ord_methods_consistency"}) \cup {"partial_eq", "partial_ord"}
    ELSE Granular \cup Composite

(***************************************************************************)
(* One call of a public function on three samples.                         *)
(***************************************************************************)
RelIdle ==
    /\ invmod = "file"
    /\ ty = "u32"
    /\ a = <<"u32", 0>>
    /\ b = <<"u32", 0>>
    /\ c = <<"u32", 0>>
    /\ verifier = "none"
    /\ pc = << >>
    /\ ran = << >>
    /\ memo = << >>
    /\ result = Idle

NoIter ==
    [script |-> << >>, hint |-> [lo |-> 0, hi |-> << >>],
     own_count |-> << >>, own_last |-> << >>]

IterIdle ==
    /\ icheck = "none"
    /\ source = NoIter
    /\ iter = NoIter
    /\ ipc = "idle"
    /\ collected = << >>
    /\ from_start = << >>
    /\ from_end = << >>
    /\ count = 0
    /\ polls = 0
    /\ iresult = Idle

HashIdle ==
    /\ ha = [id |-> 0, calls |-> << >>]
    /\ hb = [id |-> 0, calls |-> << >>]
    /\ hverifier = "none"
    /\ hpc = << >>
    /\ hresult = Idle

InitRel ==
    /\ IterIdle
    /\ HashIdle
    /\ invmod \in {"file", "inline"}
    /\ ty \in Types
    /\ \E s \in Samples(ty) : a = s[1] /\ b = s[2] /\ c = s[3]
    /\ verifier \in Callable(ty)
    /\ pc = Stages(verifier)
    /\ ran = << >>
    /\ memo \in Extend(Tables(ty), ty, OwnCalls(verifier, a, b, c))
    /\ result = Running

\* invariants::<stage>: the checker of that name in the module mod.
invariants(mod, stage, m, x, y, z) ==
    IF mod = "file"
    THEN CASE stage = "partial_eq_methods_consistency" ->
                 partial_eq_methods_consistency(m, x, y)
           [] stage = "partial_eq_symmetry" -> partial_eq_symmetry(m, x, y)
           [] stage = "partial_eq_transitivity" ->
                 partial_eq_transitivity(m, x, y, z)
           [] stage = "eq_reflexivity" -> eq_reflexivity(m, x)
           [] stage = "partial_ord_methods_consistency" ->
                 partial_ord_methods_consistency(m, x, y)
           [] stage = "partial_ord_duality" -> partial_ord_duality(m, x, y)
           [] stage = "partial_ord_transitivity" ->
                 partial_ord_transitivity(m, x, y, z)
           [] stage = "ord_methods_consistency" ->
                 ord_methods_consistency(m, x, y, z)
    ELSE CASE stage = "partial_eq_methods_consistency" ->
                 lib_partial_eq_methods_consistency(m, x, y)
           [] stage = "partial_eq_symmetry" -> lib_partial_eq_symmetry(m, x, y)
           [] stage = "partial_eq_transitivity" ->
                 lib_partial_eq_transitivity(m, x, y, z)
           [] stage = "eq_reflexivity" -> lib_eq_reflexivity(m, x)
           [] stage = "partial_ord_methods_consistency" ->
                 lib_partial_ord_methods_consistency(m, x, y)
           [] stage = "partial_ord_duality" -> lib_partial_ord_duality(m, x, y)
           [] stage = "partial_ord_transitivity" ->
                 lib_partial_ord_transitivity(m, x, y, z)
           [] stage = "ord_methods_consistency" ->
                 lib_ord_methods_consistency(m, x, y, z)

\* The checker at the head of pc returned r, having read the tables m: the
\* `?` returns a violation at once, and the verifier goes on otherwise.
Return(m, r) ==
    /\ memo' = m
    /\ ran' = Append(ran, Head(pc))
    /\ IF r = Ok
       THEN /\ pc' = Tail(pc)
            /\ result' = IF Tail(pc) = << >> THEN Ok ELSE Running
       ELSE /\ pc' = << >>
            /\ result' = r
    /\ UNCHANGED <<invmod, ty, a, b, c, verifier, itervars, hashvars>>

At(stage) == result = Running /\ pc # << >> /\ Head(pc) = stage

PartialEqMethodsConsistency ==
    /\ At("partial_eq_methods_consistency")
    /\ \E m \in Extend(memo, ty, << Key("eq", a, b), Key("ne", a, b) >>) :
          Return(m, invariants(invmod, "partial_eq_methods_consistency", m, a, b, c))

PartialEqSymmetry ==
    /\ At("partial_eq_symmetry")
    /\ \E m \in Extend(memo, ty, << Key("eq", a, b), Key("eq", b, a) >>) :
          Return(m, invariants(invmod, "partial_eq_symmetry", m, a, b, c))

PartialEqTransitivity ==
    /\ At("partial_eq_transitivity")
    /\ \E m \in Extend(memo, ty, << Key("eq", a, b), Key("eq", b, c),
                                    Key("ne", a, c) >>) :
          Return(m, invariants(invmod, "partial_eq_transitivity", m, a, b, c))

EqReflexivity ==
    /\ At("eq_reflexivity")
    /\ \E m \in Extend(memo, ty, << Key("ne", a, a) >>) :
          Return(m, invariants(invmod, "eq_reflexivity", m, a, b, c))

\* Variant of PartialOrdMethodsConsistency that passes the pair (b, c).
PartialOrdMethodsConsistencyOfBC ==
    /\ At("partial_ord_methods_consistency")
    /\ \E m \in Extend(memo, ty, << Key("eq", b, c), Key("ne", b, c),
                                    Key("partial_cmp", b, c),
                                    Key("lt", b, c), Key("gt", b, c),
                                    Key("le", b, c), Key("ge", b, c) >>) :
          Return(m, invariants(invmod, "partial_ord_methods_consistency", m, b, c, a))

PartialOrdMethodsConsistency ==
    /\ At("partial_ord_methods_consistency")
    /\ \E m \in Extend(memo, ty, << Key("eq", a, b), Key("ne", a, b),
                                    Key("partial_cmp", a, b),
                                    Key("lt", a, b), Key("gt", a, b),
                                    Key("le", a, b), Key("ge", a, b) >>) :
          Return(m, invariants(invmod, "partial_ord_methods_consistency", m, a, b, c))

PartialOrdDuality ==
    /\ At("partial_ord_duality")
    /\ \E m \in Extend(memo, ty, << Key("lt", a, b), Key("gt", b, a),
                                    Key("gt", a, b), Key("lt", b, a) >>) :
          Return(m, invariants(invmod, "partial_ord_duality", m, a, b, c))

PartialOrdTransitivity ==
    /\ At("partial_ord_transitivity")
    /\ \E m \in Extend(memo, ty, << Key("eq", a, b), Key("eq", b, c),
                                    Key("ne", a, c),
                                    Key("lt", a, b), Key("lt", b, c),
                                    Key("lt", a, c),
                                    Key("gt", a, b), Key("gt", b, c),
                                    Key("gt", a, c) >>) :
          Return(m, invariants(invmod, "partial_ord_transitivity", m, a, b, c))

\* The next method call ord_methods_consistency makes when the answers m
\* are known, << >> when it can return: the calls follow the order of the
\* source, a later call is made only when the checks before it passed,
\* and || does not evaluate its right operand when the left one is true.
\* The module of lib.rs returns after the min check.
OrdNextCall(mod, m, x, y, z) ==
    LET known(k) == k \in DOMAIN m
        mx == max_by(m, x, y)
        mn == min_by(m, x, y)
        lo == ref_min(m, y, z)
        hi == ref_max(m, y, z)
        clamped == ref_clamp(m, x, lo, hi)
    IN  IF ~known(Key("partial_cmp", x, y)) THEN Key("partial_cmp", x, y)
        ELSE IF ~known(Key("cmp", x, y)) THEN Key("cmp", x, y)
        ELSE IF partial_cmp(m, x, y) # cmp(m, x, y) THEN << >>
        ELSE IF ~known(Key("ne", mx, mx)) THEN Key("ne", mx, mx)
        ELSE IF ne_(m, mx, mx) THEN << >>
        ELSE IF ~known(Key("ne", mn, mn)) THEN Key("ne", mn, mn)
        ELSE IF ne_(m, mn, mn) THEN << >>
        ELSE IF mod = "inline" THEN << >>
        ELSE IF ~known(Key("cmp", y, z)) THEN Key("cmp", y, z)
        ELSE IF ~known(Key("le", lo, hi)) THEN Key("le", lo, hi)
        ELSE IF ~le_(m, lo, hi) THEN << >>
        ELSE IF ~known(Key("lt", x, lo)) THEN Key("lt", x, lo)
        ELSE IF ~lt_(m, x, lo) /\ ~known(Key("gt", x, hi)) THEN Key("gt", x, hi)
        ELSE IF ~known(Key("lt", clamped, lo)) THEN Key("lt", clamped, lo)
        ELSE IF lt_(m, clamped, lo) THEN << >>
        ELSE IF ~known(Key("gt", clamped, hi)) THEN Key("gt", clamped, hi)
        ELSE << >>

\* The tables after the calls of ord_methods_consistency, each call not
\* answered before answered in every way the type can.
RECURSIVE OrdCalls(_, _, _, _, _, _)
OrdCalls(mod, m, t, x, y, z) ==
    LET k == OrdNextCall(mod, m, x, y, z)
    IN  IF k = << >> THEN {m}
        ELSE UNION {OrdCalls(mod, m @@ (k :> r), t, x, y, z) : r \in Method(t, k)}

OrdMethodsConsistency ==
    /\ At("ord_methods_consistency")
    /\ \E m \in OrdCalls(invmod, memo, ty, a, b, c) :
          Return(m, invariants(invmod, "ord_methods_consistency", m, a, b, c))

NextRel ==
    \/ PartialEqMethodsConsistency
    \/ PartialEqSymmetry
    \/ PartialEqTransitivity
    \/ EqReflexivity
    \/ PartialOrdMethodsConsistency
    \/ PartialOrdDuality
    \/ PartialOrdTransitivity
    \/ OrdMethodsConsistency

SpecRel == InitRel /\ [][NextRel]_vars

(***************************************************************************)
(* Iterators.  An item of type Option is << >> (None) or << x >> (Some).   *)
(* The iterator under test yields the entries of its script in order and   *)
(* None once the script is used up.  The iterators of the tests (slice,    *)
(* BTreeSet and char_indices iterators) have scripts without None; a       *)
(* script with a None inside is an iterator that yields again after it     *)
(* signalled exhaustion.  hint is what size_hint returns at the start.     *)
(* own_count and own_last are << >> when the iterator keeps the provided   *)
(* count and last, and << r >> when it overrides them to return r.         *)
(***************************************************************************)
Nothing == << >>
Some(x) == << x >>
Items == 1..NumItems
Options == {Nothing} \cup {Some(x) : x \in Items}

RECURSIVE SeqsUpTo(_, _)
SeqsUpTo(S, n) ==
    IF n = 0 THEN {<< >>}
    ELSE LET shorter == SeqsUpTo(S, n - 1)
         IN  shorter \cup {Append(q, x) : q \in shorter, x \in S}

Hints == {[lo |-> l, hi |-> h] :
             l \in 0..(MaxLen + 1),
             h \in {Nothing} \cup {Some(n) : n \in 0..(MaxLen + 1)}}

\* Iterator::next and DoubleEndedIterator::next_back: the item returned and
\* the iterator left.
next(it) ==
    IF it.script = << >>
    THEN [item |-> Nothing, it |-> it]
    ELSE [item |-> Head(it.script), it |-> [it EXCEPT !.script = Tail(@)]]

\* The implementation of next_back under test is the correct one ("ok"),
\* one that always returns None ("none"), or one that takes the item at the
\* front as next does ("front").
BackKinds == {"ok", "none", "front"}

next_back(it) ==
    IF it.script = << >> \/ it.back = "none"
    THEN [item |-> Nothing, it |-> it]
    ELSE IF it.back = "front"
    THEN [item |-> Head(it.script), it |-> [it EXCEPT !.script = Tail(@)]]
    ELSE [item |-> it.script[Len(it.script)],
          it |-> [it EXCEPT !.script = SubSeq(@, 1, Len(@) - 1)]]

size_hint(it) == it.hint

\* Iterator::collect::<Vec<_>>(), Iterator::count and Iterator::last: the
\* provided methods, which call next up to the first None.
RECURSIVE collect(_)
collect(it) ==
    LET r == next(it)
    IN  IF r.item = Nothing THEN << >> ELSE << r.item[1] >> \o collect(r.it)

RECURSIVE provided_count(_)
provided_count(it) ==
    LET r == next(it)
    IN  IF r.item = Nothing THEN 0 ELSE 1 + provided_count(r.it)

count_(it) == IF it.own_count = << >> THEN provided_count(it) ELSE it.own_count[1]

RECURSIVE last_from(_, _)
last_from(it, seen) ==
    LET r == next(it)
    IN  IF r.item = Nothing THEN seen ELSE last_from(r.it, r.item)

last(it) == IF it.own_last = << >> THEN last_from(it, Nothing) ELSE it.own_last[1]

\* Vec::last and the reversal of `.rev()`.
vec_last(v) == IF v = << >> THEN Nothing ELSE Some(v[Len(v)])

\* Variant of rev that keeps the order.
rev_kept(v) == v

rev(v) == [i \in 1..Len(v) |-> v[Len(v) + 1 - i]]

\* Variant of iterator_size_hint whose lower bound must be below the count.
iterator_size_hint_strict(it) ==
    LET hint == size_hint(it)
        n == count_(it)
    IN  IF hint.lo >= n THEN Err("IteratorError", "BadSizeHint")
        ELSE IF hint.hi # Nothing /\ hint.hi[1] < n
        THEN Err("IteratorError", "BadSizeHint")
        ELSE Ok

iterator_size_hint(it) ==
    LET hint == size_hint(it)
        n == count_(it)
    IN  IF hint.lo > n THEN Err("IteratorError", "BadSizeHint")
        ELSE IF hint.hi # Nothing /\ hint.hi[1] < n
        THEN Err("IteratorError", "BadSizeHint")
        ELSE Ok

iterator_count(it) ==
    IF count_(it) # Len(collect(it))
    THEN Err("IteratorError", "BadCount")
    ELSE Ok

iterator_last(it) ==
    IF last(it) # vec_last(collect(it))
    THEN Err("IteratorError", "BadLast")
    ELSE Ok

\* Variant of assembled that chains from_end without `.rev()`.
assembled_unreversed(start, end) == start \o end

\* The end of double_ended_iterator_next_back, after its loop.
assembled(start, end) == start \o rev(end)

next_back_verdict(start, end, coll) ==
    IF assembled(start, end) # coll
    THEN Err("IteratorError", "BadNextBack")
    ELSE Ok

IterChecks ==
    { "iterator_size_hint", "iterator_count", "iterator_last",
      "double_ended_iterator_next_back", "fused_iterator_none_forever" }

\* The checks are given iterators over a sequence of items (the
\* double-ended one with a next_back that may be faulty); the fused check
\* is given any script, with items after a None when the iterator is not
\* fused.
Scripts(check) ==
    IF check = "fused_iterator_none_forever"
    THEN SeqsUpTo(Options, MaxLen)
    ELSE {[i \in 1..Len(q) |-> Some(q[i])] : q \in SeqsUpTo(Items, MaxLen)}

InitIter ==
    /\ RelIdle
    /\ HashIdle
    /\ icheck \in IterChecks
    /\ \E s \in Scripts(icheck), h \in Hints,
          n \in {<< >>} \cup {<< k >> : k \in 0..MaxLen},
          l \in {<< >>} \cup {<< o >> : o \in Options},
          k \in BackKinds :
          /\ source = [script |-> s, hint |-> h, own_count |-> n, own_last |-> l,
                       back |-> k]
          /\ icheck # "double_ended_iterator_next_back" => k = "ok"
          /\ icheck # "iterator_size_hint" => h = [lo |-> 0, hi |-> Nothing]
          /\ icheck \notin {"iterator_size_hint", "iterator_count"} => n = << >>
          /\ icheck # "iterator_last" => l = << >>
    /\ iter = source
    /\ ipc = "start"
    /\ collected = << >>
    /\ from_start = << >>
    /\ from_end = << >>
    /\ count = 0
    /\ polls = 0
    /\ iresult = Running

IteratorSizeHint ==
    /\ icheck = "iterator_size_hint" /\ ipc = "start"
    /\ iresult' = iterator_size_hint(iter)
    /\ ipc' = "done"
    /\ UNCHANGED <<icheck, source, iter, collected, from_start, from_end, count, polls,
                   relvars, hashvars>>

IteratorCount ==
    /\ icheck = "iterator_count" /\ ipc = "start"
    /\ iresult' = iterator_count(iter)
    /\ ipc' = "done"
    /\ UNCHANGED <<icheck, source, iter, collected, from_start, from_end, count, polls,
                   relvars, hashvars>>

IteratorLast ==
    /\ icheck = "iterator_last" /\ ipc = "start"
    /\ iresult' = iterator_last(iter)
    /\ ipc' = "done"
    /\ UNCHANGED <<icheck, source, iter, collected, from_start, from_end, count, polls,
                   relvars, hashvars>>

\* let collected = iter.clone().collect::<Vec<_>>();
DoubleEndedCollect ==
    /\ icheck = "double_ended_iterator_next_back" /\ ipc = "start"
    /\ collected' = collect(iter)
    /\ ipc' = "loop"
    /\ UNCHANGED <<icheck, source, iter, from_start, from_end, count, polls, iresult,
                   relvars, hashvars>>

\* One turn of the loop with rand::random() = true.
DoubleEndedNext ==
    /\ icheck = "double_ended_iterator_next_back" /\ ipc = "loop"
    /\ LET r == next(iter)
       IN  /\ iter' = r.it
           /\ IF r.item # Nothing
              THEN from_start' = Append(from_start, r.item[1]) /\ ipc' = "loop"
              ELSE from_start' = from_start /\ ipc' = "assemble"
    /\ UNCHANGED <<icheck, source, collected, from_end, count, polls, iresult,
                   relvars, hashvars>>

\* One turn of the loop with rand::random() = false.
DoubleEndedNextBack ==
    /\ icheck = "double_ended_iterator_next_back" /\ ipc = "loop"
    /\ LET r == next_back(iter)
       IN  /\ iter' = r.it
           /\ IF r.item # Nothing
              THEN from_end' = Append(from_end, r.item[1]) /\ ipc' = "loop"
              ELSE from_end' = from_end /\ ipc' = "assemble"
    /\ UNCHANGED <<icheck, source, collected, from_start, count, polls, iresult,
                   relvars, hashvars>>

DoubleEndedAssemble ==
    /\ icheck = "double_ended_iterator_next_back" /\ ipc = "assemble"
    /\ iresult' = next_back_verdict(from_start, from_end, collected)
    /\ ipc' = "done"
    /\ UNCHANGED <<icheck, source, iter, collected, from_start, from_end, count, polls,
                   relvars, hashvars>>

\* One turn of `while iter.next().is_some() { count += 1; }`.
FusedDrain ==
    /\ icheck = "fused_iterator_none_forever" /\ ipc \in {"start", "drain"}
    /\ LET r == next(iter)
       IN  /\ iter' = r.it
           /\ IF r.item # Nothing
              THEN count' = count + 1 /\ ipc' = "drain"
              ELSE count' = count /\ ipc' = "poll"
    /\ UNCHANGED <<icheck, source, collected, from_start, from_end, polls, iresult,
                   relvars, hashvars>>

\* Variant of poll_turns for `for _ in 0..count`.
poll_turns_short(n) == n

\* Variant of poll_turns for `for _ in 0..count + 2`.
poll_turns_extra(n) == n + 2

\* The number of turns of `for _ in 0..count + 1`.
poll_turns(n) == n + 1

\* One turn of the for loop, and the return that follows the last one.
FusedPoll ==
    /\ icheck = "fused_iterator_none_forever" /\ ipc = "poll"
    /\ polls < poll_turns(count)
    /\ LET r == next(iter)
       IN  /\ iter' = r.it
           /\ polls' = polls + 1
           /\ IF r.item # Nothing
              THEN /\ iresult' = Err("IteratorError",
                                     "FusedIteratorReturnedSomeAfterExhaustion")
                   /\ ipc' = "done"
              ELSE IF polls + 1 = poll_turns(count)
              THEN iresult' = Ok /\ ipc' = "done"
              ELSE iresult' = iresult /\ ipc' = "poll"
    /\ UNCHANGED <<icheck, source, collected, from_start, from_end, count,
                   relvars, hashvars>>

NextIter ==
    \/ IteratorSizeHint
    \/ IteratorCount
    \/ IteratorLast
    \/ DoubleEndedCollect
    \/ DoubleEndedNext
    \/ DoubleEndedNextBack
    \/ DoubleEndedAssemble
    \/ FusedDrain
    \/ FusedPoll

SpecIter == InitIter /\ [][NextIter]_vars

\* The checkers are sequential code: a call that can take a step takes it.
SpecIterFair == SpecIter /\ WF_vars(NextIter)

(***************************************************************************)
(* Hashing.  A sample is [id, calls]: two samples are equal (==) when      *)
(* their ids are, != is the provided negation of ==, and calls lists the   *)
(* calls the sample's hash method makes on the hasher, in order: write     *)
(* with a byte slice, or finish.                                           *)
(***************************************************************************)
Bytes == {0, 1}
Slices == {<< >>, <<0>>, <<1>>, <<0, 1>>}
HasherCalls == {<<"write", sl>> : sl \in Slices} \cup {<<"finish", << >>>>}
HashVals == {[id |-> i, calls |-> w] : i \in {0, 1}, w \in SeqsUpTo(HasherCalls, MaxWrites)}

\* Variant of write that keeps the slice written last.
write_last(sink, bytes) == bytes

\* NoHasher: write appends the slice to the recorded bytes; finish takes
\* &self and returns 0.
write(sink, bytes) == sink \o bytes
finish(sink) == 0

\* item.hash(&mut hasher): the calls of the sample on the sink, a finish
\* leaving the sink as it is.
RECURSIVE feed(_, _)
feed(sink, calls) ==
    IF calls = << >> THEN sink
    ELSE IF Head(calls)[1] = "write"
    THEN feed(write(sink, Head(calls)[2]), Tail(calls))
    ELSE feed(sink, Tail(calls))

\* hasher_output: the bytes a fresh NoHasher holds after item.hash.
hasher_output(item) == feed(<< >>, item.calls)

\* <[u8]>::starts_with.
starts_with(v, prefix) ==
    Len(prefix) <= Len(v) /\ SubSeq(v, 1, Len(prefix)) = prefix

hash_consistency_with_eq(x, y) ==
    LET hasher_output_equality == hasher_output(x) = hasher_output(y)
        equality == x.id = y.id
    IN  IF hasher_output_equality # equality
        THEN Err("HashError", "EqualButDifferentHashes")
        ELSE Ok

\* Variant of hash_prefix_collision that tests one direction only.
hash_prefix_collision_one_way(x, y) ==
    IF x.id # y.id /\ starts_with(hasher_output(x), hasher_output(y))
    THEN Err("HashError", "PrefixCollision")
    ELSE Ok

hash_prefix_collision(x, y) ==
    IF x.id # y.id
       /\ (\/ starts_with(hasher_output(x), hasher_output(y))
           \/ starts_with(hasher_output(y), hasher_output(x)))
    THEN Err("HashError", "PrefixCollision")
    ELSE Ok

\* The hashing verifier: consistency with equality, then prefix freedom.
hash == << "hash_consistency_with_eq", "hash_prefix_collision" >>

HashCalls == {"hash", "hash_consistency_with_eq", "hash_prefix_collision"}

HashStages(v) == IF v = "hash" THEN hash ELSE << v >>

InitHash ==
    /\ RelIdle
    /\ IterIdle
    /\ ha \in HashVals
    /\ hb \in HashVals
    /\ hverifier \in HashCalls
    /\ hpc = HashStages(hverifier)
    /\ hresult = Running

HashReturn(r) ==
    /\ IF r = Ok
       THEN /\ hpc' = Tail(hpc)
            /\ hresult' = IF Tail(hpc) = << >> THEN Ok ELSE Running
       ELSE /\ hpc' = << >>
            /\ hresult' = r
    /\ UNCHANGED <<ha, hb, hverifier, relvars, itervars>>

HashConsistencyWithEq ==
    /\ hresult = Running /\ hpc # << >>
    /\ Head(hpc) = "hash_consistency_with_eq"
    /\ HashReturn(hash_consistency_with_eq(ha, hb))

HashPrefixCollision ==
    /\ hresult = Running /\ hpc # << >>
    /\ Head(hpc) = "hash_prefix_collision"
    /\ HashReturn(hash_prefix_collision(ha, hb))

NextHash ==
    \/ HashConsistencyWithEq
    \/ HashPrefixCollision

SpecHash == InitHash /\ [][NextHash]_vars

(***************************************************************************)
(* Any call of the library.                                                *)
(***************************************************************************)
Init == InitRel \/ InitIter \/ InitHash

Next == NextRel \/ NextIter \/ NextHash

Spec == Init /\ [][Next]_vars

(***************************************************************************)
(* Properties.                                                             *)
(***************************************************************************)
Transaction(n) == <<"Transaction", n>>
Block(n) == <<"Block", n>>

Returned == result \notin {Running, Idle}
IsViolation(r) == r \notin {Running, Idle, Ok}

\* A script of the tests' iterators, and the items it holds.
IsPlain(script) == \A i \in 1..Len(script) : script[i] # Nothing
ItemsOf(script) == [i \in 1..Len(script) |-> script[i][1]]

Reversed(v) == [i \in 1..Len(v) |-> v[Len(v) + 1 - i]]

\* C1: for every sequence driven through a correct double-ended iterator
\* and every sequence of front/back choices, the materialization of the
\* clone is the sequence itself, the items taken from the front, then the
\* items still in the iterator, then the reverse of the items taken from
\* the back, make up that sequence at every turn of the loop, and
\* double_ended_iterator_next_back ends with front ++ reverse(back) equal to
\* it and returns Ok.
C1_DoubleEndedAssembles ==
    (/\ icheck = "double_ended_iterator_next_back"
     /\ IsPlain(source.script)
     /\ source.back = "ok") =>
        /\ ipc # "start" => collected = ItemsOf(source.script)
        /\ ipc = "loop" =>
              from_start \o ItemsOf(iter.script) \o Reversed(from_end) = collected
        /\ ipc \in {"assemble", "done"} =>
              from_start \o Reversed(from_end) = collected
        /\ ipc = "done" => iresult = Ok
        /\ iresult \in {Running, Ok}

\* C1 happens: a run that took items from both ends, two different ones
\* from the back, has returned.
C1_Witness ==
    /\ icheck = "double_ended_iterator_next_back"
    /\ source.back = "ok"
    /\ ipc = "done"
    /\ iresult = Ok
    /\ Len(from_start) >= 1
    /\ Len(from_end) >= 2
    /\ from_end[1] # from_end[2]

\* C2: on ArweaveTrigger, ord(Transaction(1), Transaction(2), Block(0))
\* never returns Ok; what it returns is the violation of
\* partial_ord_methods_consistency for partial_cmp disagreeing with ==
\* (cmp(a, b) is Equal while a == b is false), after the seven checkers
\* before it passed.
C2_ArweaveRejected ==
    (/\ ty = "ArweaveTrigger" /\ verifier = "ord"
     /\ a = Transaction(1) /\ b = Transaction(2) /\ c = Block(0)) =>
        /\ result # Ok
        /\ result = Running => Len(ran) < 8
        /\ Returned =>
              /\ result = IF invmod = "file"
                          THEN Err("PartialOrdError", "BadPartialCmp")
                          ELSE Err("Error", "NotConsistentPartialCmpEq")
              /\ Len(ran) = 8
              /\ ran[8] = "partial_ord_methods_consistency"
              /\ cmp(memo, a, b) = Equal
              /\ partial_cmp(memo, a, b) = Equal
              /\ ~eq_(memo, a, b)

\* C2 happens: that call has returned, with the checkers of invariants.rs.
C2_Witness ==
    /\ ty = "ArweaveTrigger" /\ verifier = "ord" /\ invmod = "file"
    /\ a = Transaction(1) /\ b = Transaction(2) /\ c = Block(0)
    /\ Returned

\* C3: for a value a with a != a, eq_reflexivity(a), and eq(a, b, c) when it
\* gets as far as eq_reflexivity, return a violation whose kind is
\* BrokeReflexivity.
C3_ReflexivityKind ==
    (/\ verifier \in {"eq_reflexivity", "eq"}
     /\ Returned
     /\ ran # << >>
     /\ ran[Len(ran)] = "eq_reflexivity"
     /\ ne_(memo, a, a)) =>
        /\ IsViolation(result)
        /\ result[2] = "BrokeReflexivity"

\* C4: on f32 with NaN, partial_eq(a, b, c) and partial_ord(a, b, c) return
\* Ok for every a, b, c: every checker they run passes.
C4_FloatsPass ==
    (ty = "f32" /\ verifier \in {"partial_eq", "partial_ord"}) =>
        /\ result \in {Running, Ok}
        /\ (pc = << >>) = (result = Ok)
        /\ result = Ok => ran = Stages(verifier)

\* C4 happens: partial_ord has returned on a triple that holds NaN twice
\* and a number.
C4_Witness ==
    /\ ty = "f32" /\ verifier = "partial_ord"
    /\ a = NaN /\ b = NaN /\ c # NaN
    /\ result = Ok

\* C5: on u32, ord(a, b, c) and eq(a, b, c) return Ok for every a, b, c:
\* every checker they run passes.
C5_IntegersPass ==
    (ty = "u32" /\ verifier \in {"ord", "eq"}) =>
        /\ result \in {Running, Ok}
        /\ (pc = << >>) = (result = Ok)
        /\ result = Ok => ran = Stages(verifier)

\* C5 happens: ord has returned on three different integers, a above the
\* bounds of the clamp.
C5_Witness ==
    /\ ty = "u32" /\ verifier = "ord"
    /\ a[2] > b[2] /\ b[2] > c[2]
    /\ result = Ok

\* The iterator yields the items of its script and then None for ever, and
\* its count and last, when it overrides them, agree with that.
IsCorrect(it) ==
    /\ IsPlain(it.script)
    /\ it.own_count \in {<< >>, << Len(it.script) >>}
    /\ it.own_last \in {<< >>, << vec_last(ItemsOf(it.script)) >>}

HintHolds(h, n) == h.lo <= n /\ (h.hi # Nothing => n <= h.hi[1])

\* C6: for a correct iterator over n items whose size hint has
\* lo <= n <= hi (hi when present), iterator_size_hint, iterator_count and
\* iterator_last return Ok; on a correct iterator iterator_size_hint
\* returns Ok only for such a hint.
C6_IteratorPasses ==
    (/\ icheck \in {"iterator_size_hint", "iterator_count", "iterator_last"}
     /\ ipc = "done"
     /\ IsCorrect(source)) =>
        /\ HintHolds(source.hint, Len(source.script)) => iresult = Ok
        /\ icheck = "iterator_size_hint" =>
              (iresult = Ok) = HintHolds(source.hint, Len(source.script))
        /\ iresult \in {Ok, Err("IteratorError", "BadSizeHint")}

\* C6 happens: iterator_size_hint has returned on two items with the exact
\* hint (2, Some(2)).
C6_Witness ==
    /\ icheck = "iterator_size_hint"
    /\ ipc = "done"
    /\ IsCorrect(source)
    /\ Len(source.script) = 2
    /\ source.hint = [lo |-> 2, hi |-> Some(2)]
    /\ iresult = Ok

\* The place of the first None of a script (past its end when it has none)
\* and what the i-th call of next returns.
FirstNone(script) ==
    IF IsPlain(script) THEN Len(script) + 1
    ELSE CHOOSE i \in 1..Len(script) :
            script[i] = Nothing /\ \A j \in 1..(i - 1) : script[j] # Nothing

Yields(script, i) == IF i <= Len(script) THEN script[i] ELSE Nothing

IsFused(script) ==
    \A i \in 1..Len(script) : i > FirstNone(script) => script[i] = Nothing

\* C7: fused_iterator_none_forever counts the items up to the first None,
\* then calls next at most count + 1 more times; it returns
\* FusedIteratorReturnedSomeAfterExhaustion at the first of these calls that
\* yields an item, and Ok after count + 1 calls that all yielded None; on a
\* fused iterator it returns Ok.
C7_FusedPolls ==
    icheck = "fused_iterator_none_forever" =>
        LET s == source.script
            k == FirstNone(s)
        IN  /\ ipc \in {"start", "drain"} => count < k /\ polls = 0
            /\ ipc \in {"poll", "done"} => count = k - 1
            /\ polls <= count + 1
            /\ ipc # "done" =>
                  /\ iresult = Running
                  /\ \A j \in 1..polls : Yields(s, k + j) = Nothing
            /\ ipc = "done" =>
                  \/ /\ iresult = Err("IteratorError",
                                      "FusedIteratorReturnedSomeAfterExhaustion")
                     /\ polls >= 1
                     /\ Yields(s, k + polls) # Nothing
                     /\ \A j \in 1..(polls - 1) : Yields(s, k + j) = Nothing
                  \/ /\ iresult = Ok
                     /\ polls = count + 1
                     /\ \A j \in 1..polls : Yields(s, k + j) = Nothing
            /\ (ipc = "done" /\ IsFused(s)) => iresult = Ok

\* C7 happens: the check has returned Ok on an iterator of two or more
\* items, after count + 1 further calls.
C7_Witness ==
    /\ icheck = "fused_iterator_none_forever"
    /\ ipc = "done"
    /\ iresult = Ok
    /\ IsFused(source.script)
    /\ count >= 2
    /\ polls = count + 1

\* The bytes written, in call order, and the prefix relation.
RECURSIVE Concat(_)
Concat(ws) ==
    IF ws = << >> THEN << >>
    ELSE Concat(SubSeq(ws, 1, Len(ws) - 1))
            \o (IF ws[Len(ws)][1] = "write" THEN ws[Len(ws)][2] ELSE << >>)

IsPrefixOf(p, v) == \E n \in 0..Len(v) : p = SubSeq(v, 1, n)

\* C8: hash(a, b) returns Ok exactly when a == b and the recorded bytes are
\* identical, or a != b and neither record is a prefix of the other; equal
\* values with different records and unequal values with identical records
\* get EqualButDifferentHashes, unequal values with one record a proper
\* prefix of the other get PrefixCollision.
C8_HashVerdict ==
    (hverifier = "hash" /\ hresult \notin {Running, Idle}) =>
        LET oa == Concat(ha.calls)
            ob == Concat(hb.calls)
            equal == ha.id = hb.id
            prefix == IsPrefixOf(oa, ob) \/ IsPrefixOf(ob, oa)
        IN  /\ (hresult = Ok) = ((equal /\ oa = ob) \/ (~equal /\ ~prefix))
            /\ (equal /\ oa # ob) =>
                  hresult = Err("HashError", "EqualButDifferentHashes")
            /\ (~equal /\ oa = ob) =>
                  hresult = Err("HashError", "EqualButDifferentHashes")
            /\ (~equal /\ oa # ob /\ prefix) =>
                  hresult = Err("HashError", "PrefixCollision")
            /\ hpc = << >>

\* C8 happens: hash has returned PrefixCollision for two unequal values,
\* the record of the first a proper, non-empty prefix of the second's.
C8_Witness ==
    /\ hverifier = "hash"
    /\ hresult = Err("HashError", "PrefixCollision")
    /\ ha.id # hb.id
    /\ Len(hasher_output(ha)) >= 1
    /\ Len(hasher_output(hb)) > Len(hasher_output(ha))

\* C9: partial_ord_duality(a, b) returns BrokeDuality whenever a > b
\* differs from b < a or a < b differs from b > a, and Ok only when both
\* equivalences hold.
C9_DualityBothWays ==
    (/\ Returned
     /\ ran # << >>
     /\ ran[Len(ran)] = "partial_ord_duality") =>
        LET broken == \/ gt_(memo, a, b) # lt_(memo, b, a)
                      \/ lt_(memo, a, b) # gt_(memo, b, a)
        IN  /\ broken => (IsViolation(result) /\ result[2] = "BrokeDuality")
            /\ result = Ok => ~broken

\* The order of the checkers of each composite verifier.
ClaimedOrder(v) ==
    CASE v = "partial_eq" ->
            << "partial_eq_methods_consistency", "partial_eq_symmetry",
               "partial_eq_transitivity" >>
      [] v = "eq" ->
            << "partial_eq_methods_consistency", "partial_eq_symmetry",
               "partial_eq_transitivity", "eq_reflexivity" >>
      [] v = "partial_ord" ->
            << "partial_eq_methods_consistency", "partial_eq_symmetry",
               "partial_eq_transitivity", "partial_ord_methods_consistency",
               "partial_ord_duality", "partial_ord_transitivity" >>
      [] v = "ord" ->
            << "partial_eq_methods_consistency", "partial_eq_symmetry",
               "partial_eq_transitivity", "eq_reflexivity",
               "partial_eq_methods_consistency", "partial_eq_symmetry",
               "partial_eq_transitivity", "partial_ord_methods_consistency",
               "partial_ord_duality", "partial_ord_transitivity",
               "ord_methods_consistency" >>

\* What the checker run i-th returns on the samples.
Verdict(i) == invariants(invmod, ran[i], memo, a, b, c)

\* C10: each composite verifier runs its checkers in the stated order; the
\* checkers before the last one run have passed; a violation is the one of
\* the last checker run, and nothing runs after it; Ok is returned once
\* every checker has run and passed.
C10_FirstViolationWins ==
    verifier \in Composite =>
        /\ Len(ran) <= Len(ClaimedOrder(verifier))
        /\ ran = SubSeq(ClaimedOrder(verifier), 1, Len(ran))
        /\ \A i \in 1..(Len(ran) - 1) : Verdict(i) = Ok
        /\ result = Running =>
              /\ Len(ran) < Len(ClaimedOrder(verifier))
              /\ ran # << >> => Verdict(Len(ran)) = Ok
        /\ result = Ok =>
              /\ ran = ClaimedOrder(verifier)
              /\ Verdict(Len(ran)) = Ok
        /\ IsViolation(result) =>
              /\ ran # << >>
              /\ result = Verdict(Len(ran))
              /\ pc = << >>
              /\ ~ENABLED NextRel

\* C10 happens: on a value with a == a and a != a both true, eq or ord has
\* returned the violation of the first checker, eq/ne consistency,
\* although reflexivity is broken on the same sample.
C10_Witness ==
    /\ verifier \in {"eq", "ord"}
    /\ ty = "any"
    /\ a = b
    /\ IsViolation(result)
    /\ result[2] \in {"BadNe", "NotConsistentEqNe"}
    /\ ran = << "partial_eq_methods_consistency" >>
    /\ ne_(memo, a, a)

\* The last checker run.
LastRan == ran[Len(ran)]

\* C11: once the cmp, max and min checks of ord_methods_consistency have
\* passed, the call (alone or as the last checker of ord) returns BadClamp
\* exactly when clamped < lo or clamped > hi, for lo = min(b, c),
\* hi = max(b, c) and clamped = clamp(a, lo, hi), whatever the type answers
\* to the comparisons of the clamp check.
C11_ClampChecked ==
    (/\ Returned
     /\ ran # << >>
     /\ LastRan = "ord_methods_consistency"
     /\ ~(IsViolation(result)
          /\ result[2] \in {"BadCmp", "BadMax", "BadMin",
                            "NotConsistentCmpPartialCmp",
                            "NotConsistentCmpMax", "NotConsistentCmpMin"})) =>
        \A m \in OrdCalls("file", memo, ty, a, b, c) :
            LET lo == ref_min(m, b, c)
                hi == ref_max(m, b, c)
                clamped == ref_clamp(m, a, lo, hi)
            IN  ref_clamp_asserts(m, lo, hi) =>
                   ((IsViolation(result) /\ result[2] = "BadClamp")
                       = (lt_(m, clamped, lo) \/ gt_(m, clamped, hi)))

\* The sequences of rand::random() answers of a run, and the outcome of
\* double_ended_iterator_next_back on the iterator it that answers them.
Choices == [1..(MaxLen + 1) -> BOOLEAN]

RECURSIVE next_back_run(_, _, _, _, _)
next_back_run(it, start, end, coll, choices) ==
    LET r == IF Head(choices) THEN next(it) ELSE next_back(it)
    IN  IF r.item = Nothing THEN next_back_verdict(start, end, coll)
        ELSE IF Head(choices)
        THEN next_back_run(r.it, Append(start, r.item[1]), end, coll, Tail(choices))
        ELSE next_back_run(r.it, start, Append(end, r.item[1]), coll, Tail(choices))

Outcome(it, choices) == next_back_run(it, << >>, << >>, collect(it), choices)

\* C12: whatever the double-ended iterator, correct or not, a run of
\* double_ended_iterator_next_back that has returned has the outcome of
\* every other sequence of front/back choices on the same iterator.
C12_OutcomeIgnoresChoices ==
    (icheck = "double_ended_iterator_next_back" /\ ipc = "done") =>
        \A ch \in Choices : Outcome(source, ch) = iresult

\* C12, amended: on a correct double-ended iterator, a run that has
\* returned has the outcome of every other sequence of choices.
C12_CorrectOutcomeIgnoresChoices ==
    (/\ icheck = "double_ended_iterator_next_back"
     /\ ipc = "done"
     /\ source.back = "ok") =>
        \A ch \in Choices : Outcome(source, ch) = iresult

\* C12 happens: a run on a correct iterator over three or more items, not
\* all alike, has returned after taking from both ends.
C12_Witness ==
    /\ icheck = "double_ended_iterator_next_back"
    /\ ipc = "done"
    /\ source.back = "ok"
    /\ Len(source.script) >= 3
    /\ source.script[1] # source.script[Len(source.script)]
    /\ from_start # << >>
    /\ from_end # << >>

\* C13: whenever ord(a, b, c) returns Ok, exactly one of a < b, a == b and
\* a > b is true, and it is the one cmp(a, b) names, whatever the type's
\* eq, ne, lt, le, gt, ge, partial_cmp, cmp, max, min and clamp answer.
C13_Trichotomy ==
    (verifier = "ord" /\ result = Ok) =>
        LET holding == {r \in {"lt", "eq", "gt"} : memo[Key(r, a, b)]}
        IN  /\ Cardinality(holding) = 1
            /\ lt_(memo, a, b) = (cmp(memo, a, b) = Less)
            /\ eq_(memo, a, b) = (cmp(memo, a, b) = Equal)
            /\ gt_(memo, a, b) = (cmp(memo, a, b) = Greater)
            /\ partial_cmp(memo, a, b) = cmp(memo, a, b)

\* C13 happens: ord has returned Ok on an unconstrained implementation for
\* two values with a > b, whose own max answers b.
C13_Witness ==
    /\ verifier = "ord"
    /\ ty = "any"
    /\ result = Ok
    /\ a # b
    /\ cmp(memo, a, b) = Greater
    /\ max_(memo, a, b) = b

\* The five equivalences of order-method consistency on (a, b), in order,
\* each with the kind reported when it fails.
Equivalences ==
    LET cmp3 == partial_cmp(memo, a, b)
    IN  << <<"BadPartialCmp", eq_(memo, a, b) <=> (cmp3 = Equal)>>,
           <<"BadLt", lt_(memo, a, b) <=> (cmp3 = Less)>>,
           <<"BadGt", gt_(memo, a, b) <=> (cmp3 = Greater)>>,
           <<"BadLe", le_(memo, a, b) <=> (lt_(memo, a, b) \/ eq_(memo, a, b))>>,
           <<"BadGe", ge_(memo, a, b) <=> (gt_(memo, a, b) \/ eq_(memo, a, b))>> >>

\* C14: partial_ord_methods_consistency(a, b) of invariants.rs returns Ok
\* exactly when the five equivalences hold for cmp3 = partial_cmp(a, b),
\* which may be None, and otherwise the kind of the first one that fails in
\* the order BadPartialCmp, BadLt, BadGt, BadLe, BadGe; on Ok, a <= b iff
\* cmp3 is Less or Equal and a >= b iff cmp3 is Greater or Equal.
C14_OrderMethodsVerdict ==
    (/\ invmod = "file"
     /\ Returned
     /\ ran # << >>
     /\ LastRan = "partial_ord_methods_consistency") =>
        LET failing == {i \in 1..5 : ~Equivalences[i][2]}
            cmp3 == partial_cmp(memo, a, b)
        IN  /\ (result = Ok) = (failing = {})
            /\ failing # {} =>
                  \E i \in failing :
                     /\ \A j \in failing : i <= j
                     /\ result = Err("PartialOrdError", Equivalences[i][1])
            /\ result = Ok =>
                  /\ le_(memo, a, b) = (cmp3 \in {Less, Equal})
                  /\ ge_(memo, a, b) = (cmp3 \in {Greater, Equal})

\* C14 happens: the checker has returned BadGt for a pair whose comparator
\* is undefined and whose <= and >= also fail their equivalences.
C14_Witness ==
    /\ invmod = "file"
    /\ verifier = "partial_ord_methods_consistency"
    /\ result = Err("PartialOrdError", "BadGt")
    /\ partial_cmp(memo, a, b) = None
    /\ ~Equivalences[4][2]
    /\ ~Equivalences[5][2]

\* C15: ord_methods_consistency(a, b, c) returns BadCmp when
\* partial_cmp(a, b) is not Some(cmp(a, b)); failing that, BadMax when the
\* type's max(a, b) is not the reference result (a if cmp(a, b) is Greater,
\* b otherwise), then BadMin when its min(a, b) is not the reference
\* result (b if cmp(a, b) is Greater, a otherwise): a type whose max
\* answers the first argument, or whose min answers the second, on a tie
\* between two values that its == tells apart (none of them != to itself)
\* is rejected.
C15_TieBreakChecked ==
    (/\ Returned
     /\ result # Panic
     /\ ran # << >>
     /\ LastRan = "ord_methods_consistency") =>
        IF partial_cmp(memo, a, b) # cmp(memo, a, b)
        THEN IsViolation(result)
                /\ result[2] \in {"BadCmp", "NotConsistentCmpPartialCmp"}
        ELSE \A m \in Extend(memo, ty, << Key("eq", a, b) >>) :
                LET tie == /\ a # b
                           /\ cmp(m, a, b) = Equal
                           /\ ~eq_(m, a, b)
                           /\ \A k \in DOMAIN m :
                                 (k[1] = "ne" /\ k[2] = k[3]) => ~m[k]
                IN  /\ (tie /\ max_(m, a, b) = a) =>
                          (IsViolation(result)
                              /\ result[2] \in {"BadMax", "NotConsistentCmpMax"})
                    /\ (tie /\ max_(m, a, b) = b /\ min_(m, a, b) = b) =>
                          (IsViolation(result)
                              /\ result[2] \in {"BadMin", "NotConsistentCmpMin"})

\* C16: partial_eq_transitivity(a, b, c), alone or as the last checker of
\* partial_eq(a, b, c), returns BrokeTransitivity exactly when a == b and
\* b == c hold and a == c does not, and Ok otherwise, whatever the type's eq
\* and ne answer: on Ok, a == b and b == c together imply a == c.
C16_TransitivityVerdict ==
    (/\ Returned
     /\ ran # << >>
     /\ LastRan = "partial_eq_transitivity") =>
        \A m \in Extend(memo, ty, << Key("eq", a, c) >>) :
            LET broken == eq_(m, a, b) /\ eq_(m, b, c) /\ ~eq_(m, a, c)
            IN  /\ broken = (IsViolation(result) /\ result[2] = "BrokeTransitivity")
                /\ result = Ok => ~broken

\* C17: the sink of hasher_output starts empty; after each call a value's
\* hash method makes it holds the concatenation, in call order, of the
\* slices written so far; a write adds its slice at the end and changes
\* nothing before it; finish returns 0 and leaves the bytes as they are;
\* the record of each of the two values is made of its own writes alone.
C17_SinkRecords ==
    hverifier \in HashCalls =>
        \A v \in {ha, hb} :
            /\ feed(<< >>, << >>) = << >>
            /\ hasher_output(v) = Concat(v.calls)
            /\ \A n \in 0..Len(v.calls) :
                  LET sink == feed(<< >>, SubSeq(v.calls, 1, n))
                  IN  /\ sink = Concat(SubSeq(v.calls, 1, n))
                      /\ finish(sink) = 0
                      /\ n < Len(v.calls) =>
                            LET call == v.calls[n + 1]
                                after == feed(<< >>, SubSeq(v.calls, 1, n + 1))
                            IN  /\ call[1] = "finish" => after = sink
                                /\ call[1] = "write" =>
                                      /\ Len(after) = Len(sink) + Len(call[2])
                                      /\ SubSeq(after, 1, Len(sink)) = sink
                                      /\ SubSeq(after, Len(sink) + 1, Len(after))
                                            = call[2]

\* C17 happens: a hash checker has returned on two values, one that writes
\* two bytes, calls finish and writes again, the other writing other bytes.
C17_Witness ==
    /\ hverifier \in HashCalls
    /\ hresult \notin {Running, Idle}
    /\ Len(ha.calls) = 2
    /\ ha.calls[1] = <<"write", <<0, 1>>>>
    /\ ha.calls[2] = <<"finish", << >>>>
    /\ hasher_output(hb) = <<1, 0>>

\* The items of a script, the turns of the loop of
\* double_ended_iterator_next_back taken so far (each pushed an item or
\* broke out), and the calls of next fused_iterator_none_forever has made.
NumItemsOf(script) == Cardinality({i \in 1..Len(script) : script[i] # Nothing})

LoopTurns ==
    Len(from_start) + Len(from_end)
        + (IF ipc \in {"assemble", "done"} THEN 1 ELSE 0)

NextCalls == count + (IF ipc \in {"poll", "done"} THEN 1 ELSE 0) + polls

\* C18: on an iterator over n items, the loop of
\* double_ended_iterator_next_back takes at most n + 1 turns whatever the
\* choices, and leaves at the first None; fused_iterator_none_forever calls
\* next at most 2n + 2 times; every iterator checker returns.
C18_ChecksTerminate ==
    /\ [](icheck = "double_ended_iterator_next_back" =>
             /\ LoopTurns <= NumItemsOf(source.script) + 1
             /\ ipc = "loop" =>
                   Len(from_start) + Len(from_end) <= NumItemsOf(source.script))
    /\ [](icheck = "fused_iterator_none_forever" =>
             NextCalls <= 2 * NumItemsOf(source.script) + 2)
    /\ (icheck \in IterChecks ~> ipc = "done")

\* C18 happens: fused_iterator_none_forever has returned after 2n + 2
\* calls of next on an iterator over n >= 2 items.
C18_Witness ==
    /\ icheck = "fused_iterator_none_forever"
    /\ ipc = "done"
    /\ NumItemsOf(source.script) >= 2
    /\ NextCalls = 2 * NumItemsOf(source.script) + 2

\* The method calls the transitivity checkers make on the pairs (b, c) and
\* (a, c).
TransitivityCalls ==
    { Key("eq", b, c), Key("ne", a, c),
      Key("lt", b, c), Key("lt", a, c), Key("gt", b, c), Key("gt", a, c) }

\* C19: a composite verifier calls the methods of the two-value laws on
\* a and b only; c is an operand only of the calls of the transitivity
\* checkers and, once ord_methods_consistency runs, of the cmp, <=, < and >
\* of its clamp check.  On ArweaveTrigger, ord(a, b, c) returns a violation
\* exactly when a and b are of the same variant with different payloads,
\* and it is the one of partial_ord_methods_consistency.
C19_OnlyFirstPair ==
    /\ (ty = "any" /\ verifier \in Composite /\ c \notin {a, b}) =>
          \A k \in DOMAIN memo :
             \/ k[1] \in {"max", "min", "clamp"}
             \/ {k[2], k[3]} \subseteq {a, b}
             \/ k \in TransitivityCalls
             \/ /\ k[1] \in {"cmp", "le", "lt", "gt"}
                /\ ran # << >>
                /\ LastRan = "ord_methods_consistency"
    /\ (ty = "ArweaveTrigger" /\ verifier = "ord" /\ Returned) =>
          /\ IsViolation(result) = (a[1] = b[1] /\ a[2] # b[2])
          /\ IsViolation(result) =>
                /\ result[2] \in {"BadPartialCmp", "NotConsistentPartialCmpEq"}
                /\ LastRan = "partial_ord_methods_consistency"

\* C19 happens: ord(Block(0), Transaction(1), Transaction(2)) has returned
\* Ok, with cmp(b, c) = Equal and b == c false.
C19_Witness ==
    /\ ty = "ArweaveTrigger" /\ verifier = "ord"
    /\ a = Block(0) /\ b = Transaction(1) /\ c = Transaction(2)
    /\ result = Ok
    /\ cmp(memo, b, c) = Equal
    /\ ~eq_(memo, b, c)

====
